---- MODULE Spec2Model ----
(***************************************************************************)
(* Order API (order-api/app): the POST /orders request pipeline, the      *)
(* request-id middleware, the probes /health and /ready, /login and the    *)
(* token service.                                                          *)
(*                                                                         *)
(*   middleware set_request_id -> HTTPBearer + get_current_user            *)
(*     -> OrderIn body validation -> @limiter.limit wrapper                *)
(*     -> create_order body -> handle_order (SQS publish, presigned URL)   *)
(*                                                                         *)
(* One server process, one asyncio event loop.  A request is suspended     *)
(* only where its coroutine awaits I/O: while the body is received (after  *)
(* the middleware has run) and while the sync dependencies get_sqs_client  *)
(* and get_ddb_client run in the thread pool (after get_current_user).     *)
(* Everything from the body validation to the response runs in one loop    *)
(* step: the limiter wrapper and handle_order are synchronous calls.       *)
(*                                                                         *)
(* Request bodies are parsed JSON documents; uuid.uuid4() is a draw from   *)
(* the identifiers not drawn before (collision-free).                      *)
(***************************************************************************)
EXTENDS Integers, Sequences, FiniteSets, TLC

VARIABLES
    settings,     \* config.settings: sqs_queue_url, ddb_table
    app,          \* lifespan: "starting", "serving", "failed"; "unit" = none
    now,          \* wall clock, in rate-limit granularity units
    req,          \* the request of each connection: its position and
                  \* what the server has read of it
    storage,      \* limiter MemoryStorage.storage: key -> counter
    expirations,  \* limiter MemoryStorage.expirations: key -> expiry time
    queue,        \* messages accepted by sqs.send_message, in order
    handles,      \* presigned URLs returned by ddb.generate_presigned_url
    usedIds,      \* order ids uuid4 has produced
    nreq,         \* requests received so far
    win,          \* history: per key, the current window's hits/admissions
    last,         \* history: the request completed last and its response
    hcall,        \* history: the last direct call of handle_order
    clock,        \* wall clock of the token service, in ticks
    token,        \* the token create_access_token returned last
    decoded,      \* history: the last validation of that token
    request_id_ctx, \* deps.request_id_ctx: its value in each request's task
    loop,         \* the task the event loop is running; 0 when it is idle
    frames,       \* create_order's coroutine of each task, step by step
    trace         \* history: the steps the event loop has run, in order

vars == <<settings, app, now, req, storage, expirations, queue, handles,
          usedIds, nreq, win, last, hcall, clock, token, decoded,
          request_id_ctx, loop, frames, trace>>

loopvars == <<loop, frames, trace>>

tokvars == <<clock, token, decoded>>

(* what the steps of a request leave alone *)
unitvars == <<hcall, clock, token, decoded, loop, frames, trace>>

----------------------------------------------------------------------------
(* Bounds of the model *)

MaxReqs == 3
RateLimitN == 2
WindowLen == 1
MaxTime == WindowLen
MaxCalls == 2
MaxTtlMinutes == 1
TicksPerSecond == 2
MaxIssueTicks == 2
MaxChecks == 2

(* Program constants *)

PresignExpiresIn == 300
MaxUserIdLen == 50
MinUserIdLen == 1
JwtExpiresMinutes == 60
SecondsPerMinute == 60

----------------------------------------------------------------------------
(* Values *)

None == "None"
Falsy(v) == v = None \/ v = ""

Slots == {1, 2}
Addrs == {"10.0.0.1", "10.0.0.2"}
Subjects == {"u1", "u2"}

(* request.client: a host address, or no client in the ASGI scope, or a    *)
(* scope the address cannot be read from                                   *)
NoClient == "no-client"
Unreadable == "unreadable"
Loopback == "127.0.0.1"
Unknown == "unknown"
Keys == Addrs \cup {Loopback, Unknown}
KeyClients == {"10.0.0.1", NoClient, Unreadable}

Routes == {"/health", "/ready", "/login", "/orders"}

(* The inbound X-Request-ID header: absent (None), empty, or a value *)
RequestIdHeaders == {None, "", "abc-123"}
ProbeRequestIds == RequestIdHeaders \cup {"0"}

QueueUrl == "https://sqs.example.com/queue"
TableName == "test-table"
JwtSecret == "change-me-in-prod"

U50 == "aaaaaaaaaaaaaaaaaaaaaaaaaaaaaaaaaaaaaaaaaaaaaaaaaa"
U51 == "aaaaaaaaaaaaaaaaaaaaaaaaaaaaaaaaaaaaaaaaaaaaaaaaaaa"

SettingsValues ==
    [sqs_queue_url : {None, "", QueueUrl}, ddb_table : {None, "", TableName},
     jwt_expires_minutes : {JwtExpiresMinutes}, environment : {"local"}]

(* str(uuid.uuid4()): the k-th identifier drawn.  The values are opaque,   *)
(* so naming them by their draw loses no behaviour.                        *)
UUIDs == {"uuid-" \o ToString(i) : i \in 1..MaxReqs}
uuid4(used) == "uuid-" \o ToString(Cardinality(used) + 1)

(* A bearer credential: garbage, or jwt.encode({"sub", "exp"}, secret).    *)
(* sub = None stands for a payload without the "sub" key.                  *)
Jwt(secret, sub, exp) ==
    [wellformed |-> TRUE, secret |-> secret, sub |-> sub, exp |-> exp]
Garbage == [wellformed |-> FALSE, secret |-> "", sub |-> None, exp |-> 0]

Credentials ==
    {Garbage}
    \cup {Jwt(JwtSecret, s, MaxTime + 1) : s \in Subjects \cup {None, ""}}
    \cup {Jwt("wrong-secret", "u1", MaxTime + 1),
          Jwt(JwtSecret, "u1", -1), Jwt(JwtSecret, "u1", 0)}

NoAuthorization == [present |-> FALSE, scheme |-> "", credentials |-> Garbage]
AuthHeaders ==
    {NoAuthorization}
    \cup {[present |-> TRUE, scheme |-> "Bearer", credentials |-> c] :
             c \in Credentials}
    \cup {[present |-> TRUE, scheme |-> "Basic", credentials |-> Garbage]}

(* A JSON body {"user_id": ..., "amount": ...}.  amount10 is the JSON      *)
(* number in tenths, so 15 is 1.5 and 10 is 1 (or 1.0).                    *)
Body(hasU, u, hasA, a10) ==
    [has_user_id |-> hasU, user_id |-> u, has_amount |-> hasA, amount10 |-> a10]
UnreadBody == Body(FALSE, "", FALSE, 0)
Bodies ==
    {Body(TRUE, "u1", TRUE, 10), Body(TRUE, "u2", TRUE, 20),
     Body(TRUE, U50, TRUE, 10),
     Body(TRUE, "", TRUE, 10), Body(TRUE, U51, TRUE, 10),
     Body(FALSE, "", TRUE, 10), Body(TRUE, "u1", FALSE, 0),
     Body(TRUE, "u1", TRUE, 0), Body(TRUE, "u1", TRUE, -10),
     Body(TRUE, "u1", TRUE, 15)}

(* The inputs of the deeper runs: few kinds of request, more requests *)
LeanHeaders ==
    {NoAuthorization,
     [present |-> TRUE, scheme |-> "Bearer", credentials |-> Garbage]}
    \cup {[present |-> TRUE, scheme |-> "Bearer",
           credentials |-> Jwt(JwtSecret, s, MaxTime + 1)] : s \in Subjects}
LeanBodies == {Body(TRUE, "u2", TRUE, 20), Body(TRUE, "u1", TRUE, 0)}

(* Outcomes of the two boto3 calls; generate_presigned_url is reached     *)
(* only after send_message returned.                                       *)
CallOutcomes == {"ok", "ClientError", "BotoCoreError", "Exception"}
PipelineOutcomes ==
    {<<"ok", d>> : d \in CallOutcomes}
    \cup {<<q, "ok">> : q \in CallOutcomes}
LeanOutcomes == {<<"ok", "ok">>}
LeanRequestIds == {None}

----------------------------------------------------------------------------
(* app/schemas.py: OrderIn *)

IsInteger10(a10) == a10 % 10 = 0

OrderInValid_AllowsZero(body) ==
    /\ body.has_user_id
    /\ Len(body.user_id) >= MinUserIdLen
    /\ Len(body.user_id) <= MaxUserIdLen
    /\ body.has_amount
    /\ IsInteger10(body.amount10)
    /\ body.amount10 \div 10 >= 0

OrderInValid(body) ==
    /\ body.has_user_id
    /\ Len(body.user_id) >= MinUserIdLen
    /\ Len(body.user_id) <= MaxUserIdLen
    /\ body.has_amount
    /\ IsInteger10(body.amount10)
    /\ body.amount10 \div 10 > 0

OrderIn(body) == [user_id |-> body.user_id, amount |-> body.amount10 \div 10]

----------------------------------------------------------------------------
(* app/auth.py: bearer = HTTPBearer(), get_current_user *)

HTTPBearer(header) ==
    IF ~header.present
    THEN [ok |-> FALSE, status |-> 403, detail |-> "Not authenticated"]
    ELSE IF header.scheme # "Bearer"
    THEN [ok |-> FALSE, status |-> 403,
          detail |-> "Invalid authentication credentials"]
    ELSE [ok |-> TRUE, status |-> 0, detail |-> ""]

(* jwt.decode raises JWTError for a malformed token, a bad signature or    *)
(* an expiry in the past (exp < now).                                      *)
JwtDecodes_NoExpiry(c, t) ==
    /\ c.wellformed
    /\ c.secret = JwtSecret

JwtDecodes(c, t) ==
    /\ c.wellformed
    /\ c.secret = JwtSecret
    /\ ~(c.exp < t)

(* timegm(dt.utctimetuple()): a datetime in whole seconds since the epoch; *)
(* the fraction of a second is dropped.  Datetimes are counted in ticks.   *)
timegm(ticks) == ticks \div TicksPerSecond

create_access_token_TtlInSeconds(s, subject, t) ==
    LET expire == t + s.jwt_expires_minutes * TicksPerSecond
    IN  Jwt(JwtSecret, subject, timegm(expire))

(* expire = now + timedelta(minutes); jwt.encode stores exp = timegm(expire) *)
create_access_token(s, subject, t) ==
    LET expire == t + s.jwt_expires_minutes * SecondsPerMinute * TicksPerSecond
    IN  Jwt(JwtSecret, subject, timegm(expire))

get_current_user_Unverified(c, t) ==
    [ok |-> TRUE, status |-> 0, user_id |-> c.sub, detail |-> ""]

get_current_user(c, t) ==
    IF ~JwtDecodes(c, t)
    THEN [ok |-> FALSE, status |-> 401, user_id |-> None,
          detail |-> "Invalid or expired token"]
    ELSE IF c.sub = None
    THEN [ok |-> FALSE, status |-> 401, user_id |-> None,
          detail |-> "Invalid token: missing subject"]
    ELSE [ok |-> TRUE, status |-> 0, user_id |-> c.sub, detail |-> ""]

----------------------------------------------------------------------------
(* app/handler.py: handle_order *)

SqsMessage_SwappedKeys(s, order_id, order_in, user_id) ==
    [QueueUrl |-> s.sqs_queue_url,
     MessageBody |-> [order_id |-> order_id, user_id |-> user_id,
                      amount |-> order_in.amount],
     MessageGroupId |-> order_id,
     MessageDeduplicationId |-> user_id]

SqsMessage(s, order_id, order_in, user_id) ==
    [QueueUrl |-> s.sqs_queue_url,
     MessageBody |-> [order_id |-> order_id, user_id |-> user_id,
                      amount |-> order_in.amount],
     MessageGroupId |-> user_id,
     MessageDeduplicationId |-> order_id]

PresignedUrl_LongLived(s, order_id) ==
    [ClientMethod |-> "get_item", TableName |-> s.ddb_table,
     Key |-> order_id, ExpiresIn |-> 3600, HttpMethod |-> "GET"]

PresignedUrl(s, order_id) ==
    [ClientMethod |-> "get_item", TableName |-> s.ddb_table,
     Key |-> order_id, ExpiresIn |-> PresignExpiresIn, HttpMethod |-> "GET"]

(* calls: the boto3 calls invoked, in order; sent: the messages the queue  *)
(* accepted; signed: the presigned URLs returned.                          *)
HandlerResult(ok, status, detail, calls, sent, signed) ==
    [ok |-> ok, status |-> status, detail |-> detail, calls |-> calls,
     sent |-> sent, signed |-> signed]

handle_order_RetriesPublish(s, order_id, order_in, user_id, sqsOut, ddbOut) ==
    IF Falsy(s.sqs_queue_url)
    THEN HandlerResult(FALSE, 503, "Queue service not configured",
                       <<>>, <<>>, <<>>)
    ELSE IF sqsOut \in {"ClientError", "BotoCoreError"}
    THEN HandlerResult(FALSE, 502, "Queue service unavailable",
                       <<"send_message", "send_message">>, <<>>, <<>>)
    ELSE IF sqsOut # "ok"
    THEN HandlerResult(FALSE, 500, "Internal server error",
                       <<"send_message">>, <<>>, <<>>)
    ELSE LET sent == <<SqsMessage(s, order_id, order_in, user_id)>> IN
    IF Falsy(s.ddb_table)
    THEN HandlerResult(FALSE, 503, "Database service not configured",
                       <<"send_message">>, sent, <<>>)
    ELSE IF ddbOut \in {"ClientError", "BotoCoreError"}
    THEN HandlerResult(FALSE, 502, "Database service unavailable",
                       <<"send_message", "generate_presigned_url">>,
                       sent, <<>>)
    ELSE IF ddbOut # "ok"
    THEN HandlerResult(FALSE, 500, "Internal server error",
                       <<"send_message", "generate_presigned_url">>,
                       sent, <<>>)
    ELSE HandlerResult(TRUE, 0, "",
                       <<"send_message", "generate_presigned_url">>,
                       sent, <<PresignedUrl(s, order_id)>>)

handle_order_RetractsMessage(s, order_id, order_in, user_id, sqsOut, ddbOut) ==
    IF Falsy(s.sqs_queue_url)
    THEN HandlerResult(FALSE, 503, "Queue service not configured",
                       <<>>, <<>>, <<>>)
    ELSE IF sqsOut \in {"ClientError", "BotoCoreError"}
    THEN HandlerResult(FALSE, 502, "Queue service unavailable",
                       <<"send_message">>, <<>>, <<>>)
    ELSE IF sqsOut # "ok"
    THEN HandlerResult(FALSE, 500, "Internal server error",
                       <<"send_message">>, <<>>, <<>>)
    ELSE LET sent == <<SqsMessage(s, order_id, order_in, user_id)>> IN
    IF Falsy(s.ddb_table)
    THEN HandlerResult(FALSE, 503, "Database service not configured",
                       <<"send_message">>, sent, <<>>)
    ELSE IF ddbOut \in {"ClientError", "BotoCoreError"}
    THEN HandlerResult(FALSE, 502, "Database service unavailable",
                       <<"send_message", "generate_presigned_url">>,
                       <<>>, <<>>)
    ELSE IF ddbOut # "ok"
    THEN HandlerResult(FALSE, 500, "Internal server error",
                       <<"send_message", "generate_presigned_url">>,
                       sent, <<>>)
    ELSE HandlerResult(TRUE, 0, "",
                       <<"send_message", "generate_presigned_url">>,
                       sent, <<PresignedUrl(s, order_id)>>)

handle_order(s, order_id, order_in, user_id, sqsOut, ddbOut) ==
    IF Falsy(s.sqs_queue_url)
    THEN HandlerResult(FALSE, 503, "Queue service not configured",
                       <<>>, <<>>, <<>>)
    ELSE IF sqsOut \in {"ClientError", "BotoCoreError"}
    THEN HandlerResult(FALSE, 502, "Queue service unavailable",
                       <<"send_message">>, <<>>, <<>>)
    ELSE IF sqsOut # "ok"
    THEN HandlerResult(FALSE, 500, "Internal server error",
                       <<"send_message">>, <<>>, <<>>)
    ELSE LET sent == <<SqsMessage(s, order_id, order_in, user_id)>> IN
    IF Falsy(s.ddb_table)
    THEN HandlerResult(FALSE, 503, "Database service not configured",
                       <<"send_message">>, sent, <<>>)
    ELSE IF ddbOut \in {"ClientError", "BotoCoreError"}
    THEN HandlerResult(FALSE, 502, "Database service unavailable",
                       <<"send_message", "generate_presigned_url">>,
                       sent, <<>>)
    ELSE IF ddbOut # "ok"
    THEN HandlerResult(FALSE, 500, "Internal server error",
                       <<"send_message", "generate_presigned_url">>,
                       sent, <<>>)
    ELSE HandlerResult(TRUE, 0, "",
                       <<"send_message", "generate_presigned_url">>,
                       sent, <<PresignedUrl(s, order_id)>>)

----------------------------------------------------------------------------
(* app/deps.py: request_id_ctx, set_request_id, get_request_id *)

(* A ContextVar has one value per context; every request is handled in a  *)
(* task of its own, which runs in its own copy of the context.             *)
ContextVarSet_Global(ctx, task, v) == [t \in DOMAIN ctx |-> v]

ContextVarSet(ctx, task, v) == [ctx EXCEPT ![task] = v]

ContextVarGet(ctx, task) == ctx[task]

(* str(uuid.uuid4()) of set_request_id: the identifier drawn for the n-th  *)
(* request; distinct from every order id and every other request's.        *)
request_uuid4(n) == "req-" \o ToString(n)

(* rid = request.headers.get("X-Request-ID") or str(uuid.uuid4()) *)
set_request_id_AlwaysFresh(header, n) == request_uuid4(n)

set_request_id_EchoesEmpty(header, n) ==
    IF header # None THEN header ELSE request_uuid4(n)

set_request_id(header, n) ==
    IF header # None /\ header # "" THEN header ELSE request_uuid4(n)

get_request_id(ctx, task) == ContextVarGet(ctx, task)

----------------------------------------------------------------------------
(* app/main.py: the limiter (slowapi Limiter, fixed window, in memory) *)

(* slowapi.util.get_remote_address: the client's host, the loopback       *)
(* address when the scope has no client; raised: the lookup failed         *)
get_remote_address(client) ==
    [raised |-> client = Unreadable,
     value |-> IF client = NoClient THEN Loopback ELSE client]

get_user_id_for_rate_limit_Loopback(client) ==
    LET a == get_remote_address(client)
    IN  IF a.raised THEN Loopback ELSE a.value

get_user_id_for_rate_limit(client) ==
    LET a == get_remote_address(client)
    IN  IF a.raised THEN Unknown ELSE a.value

(* MemoryStorage.get: an expired or absent key counts 0 *)
StorageGet(st, ex, key, t) == IF ex[key] <= t THEN 0 ELSE st[key]

LimiterHit_SharedCounter(st, ex, key, t) ==
    LET c == StorageGet(st, ex, "10.0.0.1", t) + 1 IN
    [storage |-> [st EXCEPT !["10.0.0.1"] = c],
     expirations |->
        [ex EXCEPT !["10.0.0.1"] = IF c = 1 THEN t + WindowLen ELSE @],
     admitted |-> c <= RateLimitN]

LimiterHit_LostUpdate(st, ex, key, t) ==
    LET c == StorageGet(st, ex, key, t) + 1
        racing == Cardinality({q \in Slots : req[q].pc = "authed"
                                             /\ req[q].client = key}) > 1
    IN
    [storage |-> IF racing THEN st ELSE [st EXCEPT ![key] = c],
     expirations |-> IF racing THEN ex
                     ELSE [ex EXCEPT ![key] =
                              IF c = 1 THEN t + WindowLen ELSE @],
     admitted |-> c <= RateLimitN]

(* FixedWindowRateLimiter.hit: incr, then compare with the limit; the     *)
(* window's expiry is set by the hit that makes the counter 1.            *)
LimiterHit(st, ex, key, t) ==
    LET c == StorageGet(st, ex, key, t) + 1 IN
    [storage |-> [st EXCEPT ![key] = c],
     expirations |-> [ex EXCEPT ![key] = IF c = 1 THEN t + WindowLen ELSE @],
     admitted |-> c <= RateLimitN]

----------------------------------------------------------------------------
(* app/main.py: create_order and its route *)

NoOrderOut == [order_id |-> "", poll_url |-> <<>>, status |-> ""]

RouteResult(status, detail, steps, out, generated, calls, sent, signed) ==
    [status |-> status, detail |-> detail, steps |-> steps, out |-> out,
     generated |-> generated, calls |-> calls, sent |-> sent,
     signed |-> signed]

create_order_ReusesId(s, order_in, user_id, id, sqsOut, ddbOut) ==
    LET order_id == "uuid-1"
        ho == handle_order(s, order_id, order_in, user_id, sqsOut, ddbOut)
    IN  IF ho.ok
        THEN RouteResult(202, "", <<"limit", "pipeline">>,
                 [order_id |-> order_id, poll_url |-> ho.signed,
                  status |-> "PENDING"],
                 {id}, ho.calls, ho.sent, ho.signed)
        ELSE RouteResult(ho.status, ho.detail, <<"limit", "pipeline">>,
                 NoOrderOut, {id}, ho.calls, ho.sent, ho.signed)

create_order_UsesBodyUser(s, order_in, user_id, id, sqsOut, ddbOut) ==
    LET order_id == id
        ho == handle_order(s, order_id, order_in, order_in.user_id, sqsOut,
                           ddbOut)
    IN  IF ho.ok
        THEN RouteResult(202, "", <<"limit", "pipeline">>,
                 [order_id |-> order_id, poll_url |-> ho.signed,
                  status |-> "PENDING"],
                 {id}, ho.calls, ho.sent, ho.signed)
        ELSE RouteResult(ho.status, ho.detail, <<"limit", "pipeline">>,
                 NoOrderOut, {id}, ho.calls, ho.sent, ho.signed)

create_order_SecondId(s, order_in, user_id, id, sqsOut, ddbOut) ==
    LET order_id == id
        ho == handle_order(s, order_id, order_in, user_id, sqsOut, ddbOut)
    IN  IF ho.ok
        THEN RouteResult(202, "", <<"limit", "pipeline">>,
                 [order_id |-> order_id \o "-response",
                  poll_url |-> ho.signed, status |-> "PENDING"],
                 {id}, ho.calls, ho.sent, ho.signed)
        ELSE RouteResult(ho.status, ho.detail, <<"limit", "pipeline">>,
                 NoOrderOut, {id}, ho.calls, ho.sent, ho.signed)

(* The body of create_order; id is the value uuid.uuid4() returns. *)
create_order(s, order_in, user_id, id, sqsOut, ddbOut) ==
    LET order_id == id
        ho == handle_order(s, order_id, order_in, user_id, sqsOut, ddbOut)
    IN  IF ho.ok
        THEN RouteResult(202, "", <<"limit", "pipeline">>,
                 [order_id |-> order_id, poll_url |-> ho.signed,
                  status |-> "PENDING"],
                 {id}, ho.calls, ho.sent, ho.signed)
        ELSE RouteResult(ho.status, ho.detail, <<"limit", "pipeline">>,
                 NoOrderOut, {id}, ho.calls, ho.sent, ho.signed)

LimitWrapper_RunsInner(admitted, inner) ==
    IF admitted
    THEN inner
    ELSE [inner EXCEPT !.status = 429, !.detail = "Rate limit exceeded",
                       !.out = NoOrderOut]

(* @limiter.limit: the wrapper raises RateLimitExceeded (429) instead of  *)
(* calling the function when the hit is not admitted.                     *)
LimitWrapper(admitted, inner) ==
    IF admitted
    THEN inner
    ELSE RouteResult(429, "Rate limit exceeded", <<"limit">>, NoOrderOut,
                     {}, <<>>, <<>>, <<>>)

PostOrders_LimitFirst(s, st, ex, t, client, user_id, body, id, sqsOut, ddbOut) ==
    LET hit == LimiterHit(st, ex, get_user_id_for_rate_limit(client), t)
        no == RouteResult(422, "Unprocessable Entity",
                  <<"limit", "validate">>, NoOrderOut, {}, <<>>, <<>>, <<>>)
        inner == IF OrderInValid(body)
                 THEN [create_order(s, OrderIn(body), user_id, id, sqsOut,
                                    ddbOut)
                          EXCEPT !.steps = <<"limit", "validate", "pipeline">>]
                 ELSE no
    IN  [res |-> LimitWrapper(hit.admitted, inner), consulted |-> TRUE,
         storage |-> hit.storage, expirations |-> hit.expirations]

PostOrders_KeyBySubject(s, st, ex, t, client, user_id, body, id, sqsOut, ddbOut) ==
    IF ~OrderInValid(body)
    THEN [res |-> RouteResult(422, "Unprocessable Entity", <<"validate">>,
                      NoOrderOut, {}, <<>>, <<>>, <<>>),
          consulted |-> FALSE, storage |-> st, expirations |-> ex]
    ELSE LET key == IF user_id = "u1" THEN "10.0.0.1" ELSE "10.0.0.2"
             hit == LimiterHit(st, ex, key, t)
             inner == create_order(s, OrderIn(body), user_id, id,
                                   sqsOut, ddbOut)
             w == LimitWrapper(hit.admitted, inner)
         IN  [res |-> [w EXCEPT !.steps = <<"validate">> \o @],
              consulted |-> TRUE,
              storage |-> hit.storage, expirations |-> hit.expirations]

(* The route after its dependencies are solved: the body is validated     *)
(* against OrderIn, then the wrapped endpoint is called.  The result      *)
(* carries the limiter's state after the call.                            *)
PostOrders(s, st, ex, t, client, user_id, body, id, sqsOut, ddbOut) ==
    IF ~OrderInValid(body)
    THEN [res |-> RouteResult(422, "Unprocessable Entity", <<"validate">>,
                      NoOrderOut, {}, <<>>, <<>>, <<>>),
          consulted |-> FALSE, storage |-> st, expirations |-> ex]
    ELSE LET hit == LimiterHit(st, ex, get_user_id_for_rate_limit(client), t)
             inner == create_order(s, OrderIn(body), user_id, id,
                                   sqsOut, ddbOut)
             w == LimitWrapper(hit.admitted, inner)
         IN  [res |-> [w EXCEPT !.steps = <<"validate">> \o @],
              consulted |-> TRUE,
              storage |-> hit.storage, expirations |-> hit.expirations]

(* GET /health *)
health(s) ==
    [status |-> 200, detail |-> "",
     out |-> [status |-> "healthy", env |-> s.environment]]

(* ", ".join(names) *)
RECURSIVE Join(_)
Join(names) ==
    IF names = <<>> THEN ""
    ELSE IF Len(names) = 1 THEN names[1]
    ELSE names[1] \o ", " \o Join(Tail(names))

ready_HealthOnly(s) ==
    [status |-> 200, detail |-> "", out |-> [status |-> "ready"]]

(* GET /ready *)
ready(s) ==
    LET missing_config ==
            (IF Falsy(s.sqs_queue_url) THEN <<"sqs_queue_url">> ELSE <<>>)
            \o (IF Falsy(s.ddb_table) THEN <<"ddb_table">> ELSE <<>>)
    IN  IF missing_config # <<>>
        THEN [status |-> 503,
              detail |-> "Service not ready: missing configuration for "
                         \o Join(missing_config),
              out |-> NoOrderOut]
        ELSE [status |-> 200, detail |-> "", out |-> [status |-> "ready"]]

(* POST /login: the body is validated against OrderIn, then the token is  *)
(* made for form_data.user_id                                              *)
login(s, body, t) ==
    IF ~OrderInValid(body)
    THEN [status |-> 422, detail |-> "Unprocessable Entity",
          out |-> NoOrderOut]
    ELSE [status |-> 200, detail |-> "",
          out |-> [access_token |->
                      create_access_token(s, OrderIn(body).user_id, t),
                   token_type |-> "bearer"]]

validate_required_settings_QueueOnly(s) ==
    IF Falsy(s.sqs_queue_url) THEN <<"SQS_QUEUE_URL">> ELSE <<>>

(* validate_required_settings: the names of the missing settings *)
validate_required_settings(s) ==
    (IF Falsy(s.sqs_queue_url) THEN <<"SQS_QUEUE_URL">> ELSE <<>>)
    \o (IF Falsy(s.ddb_table) THEN <<"DDB_TABLE">> ELSE <<>>)

----------------------------------------------------------------------------
(* State *)

(* overlapped: the limiter was hit for the same key while this request   *)
(* was in flight (history)                                                *)
(* rid: what set_request_id returned for this request; overtaken: the     *)
(* middleware ran for another request while this one was in flight        *)
Idle == [pc |-> "idle", client |-> "", header |-> NoAuthorization,
         user_id |-> None, overlapped |-> FALSE,
         route |-> "", rid_in |-> None, rid |-> "", overtaken |-> FALSE]
Closed == [Idle EXCEPT !.pc = "closed"]

NoWindow == [start |-> -1, hits |-> 0, admitted |-> 0]

NoLast ==
    [seq |-> 0, client |-> "", header |-> NoAuthorization, rejectedAt |-> -1,
     authed |-> FALSE, user_id |-> None, body |-> UnreadBody,
     status |-> 0, detail |-> "", steps |-> <<>>, out |-> NoOrderOut,
     generated |-> {}, calls |-> <<>>, sent |-> <<>>, signed |-> <<>>,
     outcome |-> <<"ok", "ok">>,
     exhausted |-> FALSE, hitNo |-> 0, concurrent |-> FALSE,
     route |-> "", rid_in |-> None, rid_set |-> "", x_request_id |-> "",
     overtaken |-> FALSE, key |-> ""]

NoCall ==
    [n |-> 0, order_id |-> "", order_in |-> [user_id |-> "", amount |-> 0],
     user_id |-> "", outcome |-> <<"ok", "ok">>,
     res |-> HandlerResult(FALSE, 0, "", <<>>, <<>>, <<>>)]

NoToken == [issued |-> FALSE, subject |-> "", at |-> 0, jwt |-> Garbage]

NoDecoded == [n |-> 0, ok |-> FALSE, status |-> 0, user_id |-> None]

NoFrame == [pc |-> "idle", n |-> 0, client |-> "", user_id |-> None,
            order_in |-> [user_id |-> "", amount |-> 0], order_id |-> ""]

InitCommon ==
    /\ now = 0
    /\ req = [r \in Slots |-> Idle]
    /\ storage = [k \in Keys |-> 0]
    /\ expirations = [k \in Keys |-> 0]
    /\ queue = <<>>
    /\ handles = <<>>
    /\ usedIds = {}
    /\ nreq = 0
    /\ win = [k \in Keys |-> NoWindow]
    /\ last = NoLast
    /\ hcall = NoCall
    /\ clock = 0
    /\ token = NoToken
    /\ decoded = NoDecoded
    /\ request_id_ctx = [r \in Slots |-> ""]
    /\ loop = 0
    /\ frames = [r \in Slots |-> NoFrame]
    /\ trace = <<>>

Init == settings \in SettingsValues /\ InitCommon /\ app = "starting"

----------------------------------------------------------------------------
(* Actions *)

(* lifespan: the application serves only if the settings validate *)
Startup ==
    /\ app = "starting"
    /\ app' = IF validate_required_settings(settings) = <<>>
              THEN "serving" ELSE "failed"
    /\ UNCHANGED <<settings, now, req, storage, expirations, queue, handles,
                   usedIds, nreq, win, last, request_id_ctx>>
    /\ UNCHANGED unitvars

Tick ==
    /\ now < MaxTime
    /\ now' = now + 1
    /\ UNCHANGED <<settings, app, req, storage, expirations, queue, handles,
                   usedIds, nreq, win, last, request_id_ctx>>
    /\ UNCHANGED unitvars

(* A request arrives; add_request_id_middleware calls set_request_id and  *)
(* awaits call_next.  The connections are interchangeable: the free one   *)
(* of lowest number is used.                                              *)
Free(r, reuse) ==
    \/ req[r].pc = "idle"
    \/ reuse /\ req[r].pc = "closed" /\ nreq < MaxReqs

InFlight(q) == req[q].pc \in {"received", "authed"}

Receive(r, reuse, routes, rids, clients) ==
    /\ app = "serving"
    /\ Free(r, reuse)
    /\ \A q \in Slots : q < r => ~Free(q, reuse)
    /\ \E route \in routes, rid_in \in rids, client \in clients :
          LET rid == set_request_id(rid_in, nreq + 1)
          IN  /\ req' = [q \in Slots |->
                    IF q = r
                    THEN [Idle EXCEPT !.pc = "received", !.client = client,
                                      !.route = route, !.rid_in = rid_in,
                                      !.rid = rid]
                    ELSE IF InFlight(q)
                    THEN [req[q] EXCEPT !.overtaken = TRUE]
                    ELSE req[q]]
              /\ request_id_ctx' = ContextVarSet(request_id_ctx, r, rid)
    /\ nreq' = nreq + 1
    /\ UNCHANGED <<settings, app, now, storage, expirations, queue, handles,
                   usedIds, win, last>>
    /\ UNCHANGED unitvars

(* The response passes the middleware, which writes get_request_id() on   *)
(* it; the request's task ends and its context with it.                   *)
Responded(r, res) ==
    [NoLast EXCEPT
        !.seq = last.seq + 1,
        !.client = req[r].client,
        !.route = req[r].route,
        !.rid_in = req[r].rid_in,
        !.rid_set = req[r].rid,
        !.overtaken = req[r].overtaken,
        !.x_request_id = get_request_id(request_id_ctx, r),
        !.status = res.status,
        !.detail = res.detail,
        !.out = res.out]

(* GET /health and GET /ready *)
Probe(r) ==
    /\ req[r].pc = "received"
    /\ req[r].route \in {"/health", "/ready"}
    /\ last' = Responded(r, IF req[r].route = "/health"
                            THEN health(settings) ELSE ready(settings))
    /\ req' = [req EXCEPT ![r] = Closed]
    /\ request_id_ctx' = [request_id_ctx EXCEPT ![r] = ""]
    /\ UNCHANGED <<settings, app, now, storage, expirations, queue, handles,
                   usedIds, nreq, win>>
    /\ UNCHANGED unitvars

(* POST /login *)
Login(r, bodies) ==
    /\ req[r].pc = "received"
    /\ req[r].route = "/login"
    /\ \E body \in bodies :
          last' = [Responded(r, login(settings, body, clock))
                      EXCEPT !.body = body]
    /\ req' = [req EXCEPT ![r] = Closed]
    /\ request_id_ctx' = [request_id_ctx EXCEPT ![r] = ""]
    /\ UNCHANGED <<settings, app, now, storage, expirations, queue, handles,
                   usedIds, nreq, win>>
    /\ UNCHANGED unitvars

(* Depends(bearer), then get_current_user; a failure is the response *)
Authenticate(r, headers) ==
    /\ req[r].pc = "received"
    /\ req[r].route = "/orders"
    /\ \E header \in headers :
          LET b == HTTPBearer(header)
              u == get_current_user(header.credentials, now)
              failed == ~b.ok \/ ~u.ok
              res == [status |-> IF ~b.ok THEN b.status ELSE u.status,
                      detail |-> IF ~b.ok THEN b.detail ELSE u.detail,
                      out |-> NoOrderOut]
          IN  /\ req' = [req EXCEPT ![r] =
                    IF failed THEN Closed
                    ELSE [@ EXCEPT !.pc = "authed", !.header = header,
                                   !.user_id = u.user_id]]
              /\ last' =
                    IF failed
                    THEN [Responded(r, res) EXCEPT
                            !.header = header,
                            !.rejectedAt = now,
                            !.steps = <<"auth">>]
                    ELSE last
              /\ request_id_ctx' =
                    IF failed THEN [request_id_ctx EXCEPT ![r] = ""]
                    ELSE request_id_ctx
    /\ UNCHANGED <<settings, app, now, storage, expirations, queue, handles,
                   usedIds, nreq, win>>
    /\ UNCHANGED unitvars

(* The other requests in flight whose rate-limit key is that of client *)
InFlightFor(client, r) ==
    {q \in Slots \ {r} :
        /\ InFlight(q)
        /\ get_user_id_for_rate_limit(req[q].client)
              = get_user_id_for_rate_limit(client)}

(* Body validation, the limiter wrapper and create_order, in one step.    *)
(* The outcome of a call that is not made is not drawn.                   *)
Endpoint(r, bodies, outcomes) ==
    /\ req[r].pc = "authed"
    /\ \E body \in bodies, o \in outcomes :
          LET client == req[r].client
              id == uuid4(usedIds)
              sqsOut == o[1]
              ddbOut == o[2]
              key == get_user_id_for_rate_limit(client)
              dry == PostOrders(settings, storage, expirations, now, client,
                                req[r].user_id, body, id, "ok", "ok")
              p == PostOrders(settings, storage, expirations, now, client,
                              req[r].user_id, body, id, sqsOut, ddbOut)
              res == p.res
              w == win[key]
              fresh == w.start < 0 \/ now >= w.start + WindowLen
              hits == IF fresh THEN 1 ELSE w.hits + 1
              adm == (IF fresh THEN 0 ELSE w.admitted)
                     + (IF res.status # 429 THEN 1 ELSE 0)
          IN  /\ dry.res.calls = <<>> => o = <<"ok", "ok">>
              /\ storage' = p.storage
              /\ expirations' = p.expirations
              /\ win' = IF p.consulted
                        THEN [win EXCEPT ![key] =
                                [start |-> IF fresh THEN now ELSE w.start,
                                 hits |-> hits, admitted |-> adm]]
                        ELSE win
              /\ queue' = queue \o res.sent
              /\ handles' = handles \o res.signed
              /\ usedIds' = usedIds \cup res.generated
              /\ last' =
                    [seq |-> last.seq + 1, client |-> client,
                     header |-> req[r].header, rejectedAt |-> -1,
                     authed |-> TRUE, user_id |-> req[r].user_id,
                     body |-> body, status |-> res.status,
                     detail |-> res.detail, steps |-> <<"auth">> \o res.steps,
                     out |-> res.out, generated |-> res.generated,
                     calls |-> res.calls, sent |-> res.sent,
                     signed |-> res.signed, outcome |-> o,
                     exhausted |->
                        StorageGet(storage, expirations, key, now)
                            >= RateLimitN,
                     hitNo |-> IF p.consulted THEN hits ELSE 0,
                     concurrent |->
                        p.consulted
                        /\ (req[r].overlapped \/ InFlightFor(client, r) # {}),
                     route |-> req[r].route, rid_in |-> req[r].rid_in,
                     rid_set |-> req[r].rid,
                     x_request_id |-> get_request_id(request_id_ctx, r),
                     overtaken |-> req[r].overtaken,
                     key |-> IF p.consulted THEN key ELSE ""]
              /\ request_id_ctx' = [request_id_ctx EXCEPT ![r] = ""]
              /\ req' = [q \in Slots |->
                    IF q = r THEN Closed
                    ELSE IF p.consulted /\ q \in InFlightFor(client, r)
                    THEN [req[q] EXCEPT !.overlapped = TRUE]
                    ELSE req[q]]
    /\ UNCHANGED <<settings, app, now, nreq>>
    /\ UNCHANGED unitvars

(* Every kind of request, one request per connection *)
Next ==
    \/ Startup
    \/ Tick
    \/ \E r \in Slots : Receive(r, FALSE, {"/orders"}, {None}, Addrs)
    \/ \E r \in Slots : Authenticate(r, AuthHeaders)
    \/ \E r \in Slots : Endpoint(r, Bodies, PipelineOutcomes)

Spec == Init /\ [][Next]_vars

(* Few kinds of request, MaxReqs requests over the connections *)
LimitNext ==
    \/ Startup
    \/ Tick
    \/ \E r \in Slots : Receive(r, TRUE, {"/orders"}, LeanRequestIds, Addrs)
    \/ \E r \in Slots : Authenticate(r, LeanHeaders)
    \/ \E r \in Slots : Endpoint(r, LeanBodies, LeanOutcomes)

LimitSpec == Init /\ [][LimitNext]_vars

(* Every route and every outcome, with and without an inbound            *)
(* X-Request-ID; the application serves with the queue URL set or unset    *)
(* (as when config.settings is patched after startup).                     *)
RouteSettings ==
    {v \in SettingsValues :
        v.sqs_queue_url \in {None, QueueUrl} /\ v.ddb_table = TableName}

RouteInit == settings \in RouteSettings /\ InitCommon /\ app = "serving"

RouteHeaders ==
    {NoAuthorization,
     [present |-> TRUE, scheme |-> "Bearer", credentials |-> Garbage],
     [present |-> TRUE, scheme |-> "Bearer",
      credentials |-> Jwt(JwtSecret, "u1", MaxTime + 1)]}

RouteBodies == {Body(TRUE, "u1", TRUE, 10), Body(TRUE, "u1", TRUE, 0)}

RouteOutcomes ==
    {<<"ok", "ok">>, <<"ClientError", "ok">>, <<"Exception", "ok">>}

RouteNext ==
    \/ \E r \in Slots :
          Receive(r, TRUE, Routes, RequestIdHeaders, {"10.0.0.1"})
    \/ \E r \in Slots : Probe(r)
    \/ \E r \in Slots : Login(r, RouteBodies)
    \/ \E r \in Slots : Authenticate(r, RouteHeaders)
    \/ \E r \in Slots : Endpoint(r, RouteBodies, RouteOutcomes)

RouteSpec == RouteInit /\ [][RouteNext]_vars

(* GET /health and GET /ready under any settings *)
ProbeInit == settings \in SettingsValues /\ InitCommon /\ app = "serving"

ProbeNext ==
    \/ \E r \in Slots :
          Receive(r, TRUE, {"/health", "/ready"}, ProbeRequestIds,
                  {"10.0.0.1"})
    \/ \E r \in Slots : Probe(r)

ProbeSpec == ProbeInit /\ [][ProbeNext]_vars

(* The application from its startup, under any settings: the probes and   *)
(* the order route                                                         *)
ServeNext ==
    \/ Startup
    \/ \E r \in Slots :
          Receive(r, TRUE, {"/health", "/ready", "/orders"}, {None},
                  {"10.0.0.1"})
    \/ \E r \in Slots : Probe(r)
    \/ \E r \in Slots : Authenticate(r, RouteHeaders)
    \/ \E r \in Slots : Endpoint(r, RouteBodies, PipelineOutcomes)

ServeSpec == Init /\ [][ServeNext]_vars

(* Callers with and without a readable address, one kind of request *)
KeyHeaders ==
    {[present |-> TRUE, scheme |-> "Bearer",
      credentials |-> Jwt(JwtSecret, "u1", MaxTime + 1)]}

KeyBodies == {Body(TRUE, "u1", TRUE, 10)}

KeyNext ==
    \/ Startup
    \/ Tick
    \/ \E r \in Slots : Receive(r, TRUE, {"/orders"}, {None}, KeyClients)
    \/ \E r \in Slots : Authenticate(r, KeyHeaders)
    \/ \E r \in Slots : Endpoint(r, KeyBodies, LeanOutcomes)

KeySpec == Init /\ [][KeyNext]_vars

----------------------------------------------------------------------------
(* create_order on the event loop, step by step.  The loop runs one task   *)
(* until that task awaits something that is not ready; a task that has its *)
(* dependencies solved waits for the loop.  create_order's body and        *)
(* handle_order contain no await: uuid4, send_message and                  *)
(* generate_presigned_url are plain calls.                                 *)

BodySteps == {"enter", "uuid4", "send_message", "generate_presigned_url"}

Suspends_AtPublish(step) == step = "send_message"

(* Whether the coroutine gives up the loop after the step *)
Suspends(step) == FALSE

Step(r, step, order_id, status) ==
    [n |-> frames[r].n, step |-> step, order_id |-> order_id,
     status |-> status]

Runnable(r) == loop = 0 \/ loop = r

Yield(r, step) == IF Suspends(step) THEN 0 ELSE r

LoopInit ==
    /\ settings \in SettingsValues
    /\ ~Falsy(settings.sqs_queue_url) /\ ~Falsy(settings.ddb_table)
    /\ InitCommon
    /\ app = "serving"

(* A request has passed the middleware, get_current_user and the client    *)
(* dependencies and waits to be resumed at the endpoint call.              *)
Arrive(r) ==
    /\ app = "serving"
    /\ loop = 0
    /\ frames[r].pc = "idle"
    /\ nreq < MaxReqs
    /\ \E client \in {"10.0.0.1"}, user_id \in Subjects,
          body \in {Body(TRUE, "u1", TRUE, 10)} :
          /\ frames' = [frames EXCEPT ![r] =
                [NoFrame EXCEPT !.pc = "ready", !.n = nreq + 1,
                                !.client = client, !.user_id = user_id,
                                !.order_in = OrderIn(body)]]
          /\ trace' = Append(trace,
                [n |-> nreq + 1, step |-> "ready", order_id |-> "",
                 status |-> 0])
    /\ nreq' = nreq + 1
    /\ UNCHANGED <<settings, app, now, req, storage, expirations, queue,
                   handles, usedIds, win, last, hcall, tokvars,
                   request_id_ctx, loop>>

(* The limiter wrapper: the hit, then 429 or the call of create_order *)
Enter(r) ==
    /\ Runnable(r)
    /\ frames[r].pc = "ready"
    /\ LET hit == LimiterHit(storage, expirations,
                      get_user_id_for_rate_limit(frames[r].client), now)
       IN  /\ storage' = hit.storage
           /\ expirations' = hit.expirations
           /\ IF hit.admitted
              THEN /\ frames' = [frames EXCEPT ![r].pc = "entered"]
                   /\ trace' = Append(trace, Step(r, "enter", "", 0))
                   /\ loop' = Yield(r, "enter")
              ELSE /\ frames' = [frames EXCEPT ![r] = NoFrame]
                   /\ trace' = Append(trace, Step(r, "limit", "", 429))
                   /\ loop' = 0
    /\ UNCHANGED <<settings, app, now, req, queue, handles, usedIds, nreq,
                   win, last, hcall, tokvars, request_id_ctx>>

(* order_id = str(uuid.uuid4()) *)
GenerateId(r) ==
    /\ Runnable(r)
    /\ frames[r].pc = "entered"
    /\ LET id == uuid4(usedIds)
       IN  /\ usedIds' = usedIds \cup {id}
           /\ frames' = [frames EXCEPT ![r].pc = "generated",
                                       ![r].order_id = id]
           /\ trace' = Append(trace, Step(r, "uuid4", id, 0))
    /\ loop' = Yield(r, "uuid4")
    /\ UNCHANGED <<settings, app, now, req, storage, expirations, queue,
                   handles, nreq, win, last, hcall, tokvars, request_id_ctx>>

(* handle_order up to the publish *)
Publish(r) ==
    /\ Runnable(r)
    /\ frames[r].pc = "generated"
    /\ \E sqsOut \in CallOutcomes :
          LET f == frames[r]
              ho == handle_order(settings, f.order_id, f.order_in,
                                 f.user_id, sqsOut, "ok")
          IN  IF ho.sent # <<>>
              THEN /\ queue' = queue \o ho.sent
                   /\ frames' = [frames EXCEPT ![r].pc = "published"]
                   /\ trace' = Append(trace,
                         Step(r, "send_message", f.order_id, 0))
                   /\ loop' = Yield(r, "send_message")
              ELSE /\ queue' = queue
                   /\ frames' = [frames EXCEPT ![r] = NoFrame]
                   /\ trace' = Append(trace,
                         Step(r, "raise", f.order_id, ho.status))
                   /\ loop' = 0
    /\ UNCHANGED <<settings, app, now, req, storage, expirations, handles,
                   usedIds, nreq, win, last, hcall, tokvars, request_id_ctx>>

(* handle_order from the publish to its return *)
Sign(r) ==
    /\ Runnable(r)
    /\ frames[r].pc = "published"
    /\ \E ddbOut \in CallOutcomes :
          LET f == frames[r]
              ho == handle_order(settings, f.order_id, f.order_in,
                                 f.user_id, "ok", ddbOut)
          IN  IF ho.ok
              THEN /\ handles' = handles \o ho.signed
                   /\ frames' = [frames EXCEPT ![r].pc = "signed"]
                   /\ trace' = Append(trace,
                         Step(r, "generate_presigned_url", f.order_id, 0))
                   /\ loop' = Yield(r, "generate_presigned_url")
              ELSE /\ handles' = handles
                   /\ frames' = [frames EXCEPT ![r] = NoFrame]
                   /\ trace' = Append(trace,
                         Step(r, "raise", f.order_id, ho.status))
                   /\ loop' = 0
    /\ UNCHANGED <<settings, app, now, req, storage, expirations, queue,
                   usedIds, nreq, win, last, hcall, tokvars, request_id_ctx>>

(* return OrderOut(...): the coroutine ends *)
Return(r) ==
    /\ Runnable(r)
    /\ frames[r].pc = "signed"
    /\ frames' = [frames EXCEPT ![r] = NoFrame]
    /\ trace' = Append(trace, Step(r, "return", frames[r].order_id, 202))
    /\ loop' = 0
    /\ UNCHANGED <<settings, app, now, req, storage, expirations, queue,
                   handles, usedIds, nreq, win, last, hcall, tokvars,
                   request_id_ctx>>

LoopNext ==
    \/ \E r \in Slots : Arrive(r)
    \/ \E r \in Slots : Enter(r)
    \/ \E r \in Slots : GenerateId(r)
    \/ \E r \in Slots : Publish(r)
    \/ \E r \in Slots : Sign(r)
    \/ \E r \in Slots : Return(r)

LoopSpec == LoopInit /\ [][LoopNext]_vars

----------------------------------------------------------------------------
(* handle_order called directly, under any settings.  The outcome of a    *)
(* call that is not made is not drawn.                                     *)

HandlerInit == settings \in SettingsValues /\ InitCommon /\ app = "unit"

ValidOrderIns == {OrderIn(b) : b \in {x \in Bodies : OrderInValid(x)}}

DirectCall ==
    /\ app = "unit"
    /\ hcall.n < MaxCalls
    /\ \E order_id \in UUIDs, order_in \in ValidOrderIns,
          user_id \in Subjects, o \in PipelineOutcomes :
          LET sqsOut == o[1]
              ddbOut == o[2]
              dry == handle_order(settings, order_id, order_in, user_id,
                                  "ok", "ok")
              res == handle_order(settings, order_id, order_in, user_id,
                                  sqsOut, ddbOut)
          IN  /\ sqsOut # "ok" => dry.calls # <<>>
              /\ ddbOut # "ok" => Len(dry.calls) = 2
              /\ queue' = queue \o res.sent
              /\ handles' = handles \o res.signed
              /\ hcall' = [n |-> hcall.n + 1, order_id |-> order_id,
                           order_in |-> order_in, user_id |-> user_id,
                           outcome |-> o, res |-> res]
    /\ UNCHANGED <<settings, app, now, req, storage, expirations, usedIds,
                   nreq, win, last, request_id_ctx>>
    /\ UNCHANGED tokvars
    /\ UNCHANGED loopvars

HandlerNext == DirectCall

HandlerSpec == HandlerInit /\ [][HandlerNext]_vars

----------------------------------------------------------------------------
(* The token service called directly: create_access_token, then           *)
(* get_current_user on the token it returned, as time passes             *)

TokenSubjects == Subjects \cup {U50}

MaxClock ==
    MaxIssueTicks + (MaxTtlMinutes * SecondsPerMinute + 2) * TicksPerSecond

TokenSettings ==
    [sqs_queue_url : {QueueUrl}, ddb_table : {TableName},
     jwt_expires_minutes : 1..MaxTtlMinutes, environment : {"local"}]

TokenInit == settings \in TokenSettings /\ InitCommon /\ app = "unit"

ClockTick ==
    /\ app = "unit"
    /\ clock < MaxClock
    /\ clock' = clock + 1
    /\ UNCHANGED <<settings, app, now, req, storage, expirations, queue,
                   handles, usedIds, nreq, win, last, hcall, token, decoded,
                   request_id_ctx>>
    /\ UNCHANGED loopvars

Issue ==
    /\ app = "unit"
    /\ clock <= MaxIssueTicks
    /\ \E subject \in TokenSubjects :
          token' = [issued |-> TRUE, subject |-> subject, at |-> clock,
                    jwt |-> create_access_token(settings, subject, clock)]
    /\ decoded' = NoDecoded
    /\ UNCHANGED <<settings, app, now, req, storage, expirations, queue,
                   handles, usedIds, nreq, win, last, hcall, clock,
                   request_id_ctx>>
    /\ UNCHANGED loopvars

Validate ==
    /\ app = "unit"
    /\ token.issued
    /\ decoded.n < MaxChecks
    /\ LET u == get_current_user(token.jwt, timegm(clock))
       IN  decoded' = [n |-> decoded.n + 1, ok |-> u.ok, status |-> u.status,
                       user_id |-> u.user_id]
    /\ UNCHANGED <<settings, app, now, req, storage, expirations, queue,
                   handles, usedIds, nreq, win, last, hcall, clock, token,
                   request_id_ctx>>
    /\ UNCHANGED loopvars

TokenNext == ClockTick \/ Issue \/ Validate

TokenSpec == TokenInit /\ [][TokenNext]_vars

----------------------------------------------------------------------------
(* Properties *)

StageOrder == <<"auth", "validate", "limit", "pipeline">>

IsPrefix(a, b) == Len(a) <= Len(b) /\ \A i \in 1..Len(a) : a[i] = b[i]

Min(a, b) == IF a <= b THEN a ELSE b

Range(f) == {f[i] : i \in DOMAIN f}

(* A token that is missing or that no validation at a time >= 0 accepts *)
BadToken(h) ==
    \/ ~h.present
    \/ h.scheme # "Bearer"
    \/ ~h.credentials.wellformed
    \/ h.credentials.secret # JwtSecret
    \/ h.credentials.sub = None
    \/ h.credentials.exp < 0

(* An Order Request: user_id of 1..50 characters, amount a positive integer *)
ValidShape(b) ==
    /\ b.has_user_id /\ Len(b.user_id) >= 1 /\ Len(b.user_id) <= 50
    /\ b.has_amount /\ b.amount10 % 10 = 0 /\ b.amount10 > 0

Completes == last'.seq # last.seq

(* C1: handle_order fails with 503 before any call is made when the queue  *)
(* URL or the table is not configured.                                     *)
C1_NotConfiguredBeforeAnyCall ==
    (hcall.n > 0
        /\ (Falsy(settings.sqs_queue_url) \/ Falsy(settings.ddb_table)))
    => (hcall.res.status = 503 /\ hcall.res.calls = <<>>
        /\ hcall.res.sent = <<>>)

(* C2: the stages of a POST /orders request run in the order auth, rate    *)
(* limit, pipeline: a request with a missing or invalid token ends at      *)
(* auth, and the pipeline runs only for authenticated, admitted requests.  *)
C2_StageOrder ==
    last.seq > 0 =>
        /\ last.steps # <<>> /\ IsPrefix(last.steps, StageOrder)
        /\ BadToken(last.header) =>
              /\ last.steps = <<"auth">>
              /\ last.status \in {401, 403}
              /\ last.hitNo = 0
              /\ last.calls = <<>> /\ last.sent = <<>>
        /\ (last.hitNo > 0 \/ last.calls # <<>> \/ last.sent # <<>>) =>
              last.authed /\ ~BadToken(last.header)
        /\ (last.calls # <<>> \/ last.sent # <<>>) =>
              /\ last.steps = StageOrder
              /\ last.hitNo \in 1..RateLimitN

C2_Witness ==
    /\ BadToken(last.header) /\ last.steps = <<"auth">>
    /\ queue # <<>>

(* C3 as stated: an authenticated request from a key that has used up its  *)
(* limit gets 429 whether or not its body is valid.                        *)
C3_LimiterBeforeValidation ==
    (last.authed /\ last.exhausted) => last.status = 429

(* C3 amended: the body is validated before the limiter is checked; an     *)
(* invalid body gets 422 without the limiter being consulted, a valid body *)
(* from a key that has used up its limit gets 429.                         *)
C3_ValidationBeforeLimiter ==
    last.authed =>
        /\ ~ValidShape(last.body) =>
              /\ last.status = 422
              /\ last.hitNo = 0
              /\ last.steps = <<"auth", "validate">>
        /\ (ValidShape(last.body) /\ last.exhausted) => last.status = 429

C3_Witness ==
    /\ last.authed /\ last.exhausted
    /\ ~ValidShape(last.body) /\ last.status = 422

(* C4: per key and window at most RateLimitN requests are admitted: the    *)
(* k-th limiter check of a key in a window is admitted iff k <= N,         *)
(* whatever the other keys did.                                            *)
C4_AtMostNPerWindow ==
    /\ \A k \in Addrs :
          /\ win[k].admitted <= RateLimitN
          /\ win[k].admitted = Min(win[k].hits, RateLimitN)
    /\ last.hitNo > 0 => (last.status # 429 <=> last.hitNo <= RateLimitN)

C4_Witness ==
    /\ last.status = 429 /\ last.hitNo = RateLimitN + 1
    /\ win[last.client].admitted = RateLimitN

(* C5: a request the limiter rejects does not reach the pipeline: no order *)
(* id is generated, nothing is published, no handle is made.               *)
C5_RejectedChangesNothing ==
    [][(Completes /\ last'.status = 429) =>
          /\ queue' = queue
          /\ handles' = handles
          /\ usedIds' = usedIds
          /\ last'.calls = <<>> /\ last'.generated = {}
          /\ last'.steps = <<"auth", "validate", "limit">>]_vars

C5_Witness == last.status = 429 /\ queue # <<>> /\ last.hitNo > RateLimitN

(* C6: the limiter's check and update are one step: under every            *)
(* interleaving the counter of a live window equals the checks made in it  *)
(* and no more than N of them were admitted, also for requests of one key  *)
(* that were in flight together.                                           *)
C6_LimiterAtomic ==
    /\ \A k \in Addrs :
          LET w == win[k]
              live == w.start >= 0 /\ now < w.start + WindowLen
          IN  /\ live => (storage[k] = w.hits
                          /\ expirations[k] = w.start + WindowLen)
              /\ w.admitted <= RateLimitN
    /\ (last.concurrent /\ last.hitNo > RateLimitN) => last.status = 429

C6_Witness == last.concurrent /\ last.status = 429

(* C7: an authenticated, admitted request with a valid body whose publish  *)
(* and handle construction succeed gets 202, PENDING and a non-empty       *)
(* order_id that no earlier submission had.                                *)
C7_FreshOrderId ==
    /\ \A i, j \in 1..Len(queue) :
          i # j => queue[i].MessageDeduplicationId
                      # queue[j].MessageDeduplicationId
    /\ (last.authed /\ ValidShape(last.body) /\ last.status # 429
            /\ last.outcome = <<"ok", "ok">>) =>
          /\ last.status = 202
          /\ last.out.status = "PENDING"
          /\ Len(last.out.order_id) > 0
          /\ queue # <<>>
          /\ queue[Len(queue)].MessageDeduplicationId = last.out.order_id

C7_Witness ==
    /\ last.status = 202 /\ Len(queue) = 2
    /\ queue[1].MessageBody.user_id = queue[2].MessageBody.user_id
    /\ queue[1].MessageBody.amount = queue[2].MessageBody.amount

(* C8: an authenticated request whose body is not an Order Request gets    *)
(* 422 and neither send_message nor generate_presigned_url is invoked.     *)
C8_InvalidBodyRejected ==
    [][(Completes /\ last'.authed /\ ~ValidShape(last'.body)) =>
          /\ last'.status = 422
          /\ last'.calls = <<>>
          /\ queue' = queue
          /\ handles' = handles]_vars

C8_Witness ==
    last.authed /\ last.status = 422 /\ last.body.amount10 = 15

C10_EmptySubjectRejected ==
    /\ (last.seq > 0 /\ last.header.present /\ last.header.scheme = "Bearer"
            /\ last.header.credentials = Jwt(JwtSecret, "", MaxTime + 1)) =>
          (last.status = 401 /\ ~last.authed)
    /\ \A i \in 1..Len(queue) : queue[i].MessageBody.user_id # ""

(* The message and the handle handle_order makes for a direct call *)
ExpectedMessage ==
    [QueueUrl |-> settings.sqs_queue_url,
     MessageBody |-> [order_id |-> hcall.order_id, user_id |-> hcall.user_id,
                      amount |-> hcall.order_in.amount],
     MessageGroupId |-> hcall.user_id,
     MessageDeduplicationId |-> hcall.order_id]

Called == hcall'.n # hcall.n

(* C14: every message published has the body {order_id, user_id, amount}   *)
(* of its submission, goes to the configured queue, is grouped by the      *)
(* user_id and deduplicated by the order_id.                               *)
C14_MessageFormat ==
    /\ hcall.res.sent # <<>> => hcall.res.sent = <<ExpectedMessage>>
    /\ \A i \in 1..Len(queue) :
          /\ queue[i].QueueUrl = settings.sqs_queue_url
          /\ DOMAIN queue[i].MessageBody = {"order_id", "user_id", "amount"}
          /\ queue[i].MessageGroupId = queue[i].MessageBody.user_id
          /\ queue[i].MessageDeduplicationId = queue[i].MessageBody.order_id
    /\ (hcall.n > 0 /\ hcall.res.sent # <<>>) =>
          queue[Len(queue)] = ExpectedMessage

C14_Witness ==
    /\ Len(queue) = 2
    /\ queue[1].MessageGroupId # queue[2].MessageGroupId
    /\ hcall.order_in.user_id # hcall.user_id
    /\ hcall.res.sent # <<>>

(* C15: a failed publish fails the submission: 502 for a BotoCoreError or  *)
(* ClientError, 500 with the generic detail for any other exception;       *)
(* send_message was invoked once, generate_presigned_url not at all, and   *)
(* nothing was published or signed.                                        *)
C15_PublishFailure ==
    [][(Called /\ hcall'.outcome[1] # "ok") =>
          /\ hcall'.res.status =
                IF hcall'.outcome[1] \in {"ClientError", "BotoCoreError"}
                THEN 502 ELSE 500
          /\ hcall'.res.status = 500 =>
                hcall'.res.detail = "Internal server error"
          /\ hcall'.res.status = 502 =>
                hcall'.res.detail = "Queue service unavailable"
          /\ hcall'.res.calls = <<"send_message">>
          /\ hcall'.res.signed = <<>>
          /\ queue' = queue
          /\ handles' = handles]_vars

C15_Witness ==
    /\ hcall.outcome[1] = "Exception" /\ hcall.res.status = 500
    /\ queue # <<>>

(* C17: a publish that succeeded followed by a failed handle construction  *)
(* fails the submission (502 for a BotoCoreError or ClientError, 500       *)
(* otherwise) and leaves the message published: the message is appended to *)
(* the queue, no message is ever removed, and each of the two calls was    *)
(* invoked once.                                                           *)
C17_PartialEffect ==
    [][/\ IsPrefix(queue, queue')
       /\ (Called /\ hcall'.outcome[1] = "ok" /\ hcall'.outcome[2] # "ok") =>
             /\ hcall'.res.status =
                   IF hcall'.outcome[2] \in {"ClientError", "BotoCoreError"}
                   THEN 502 ELSE 500
             /\ hcall'.res.calls = <<"send_message", "generate_presigned_url">>
             /\ Len(queue') = Len(queue) + 1
             /\ queue'[Len(queue')].MessageDeduplicationId = hcall'.order_id
             /\ handles' = handles]_vars

C17_Witness ==
    /\ hcall.outcome = <<"ok", "ClientError">> /\ hcall.res.status = 502
    /\ queue # <<>>
    /\ queue[Len(queue)].MessageDeduplicationId = hcall.order_id
    /\ handles = <<>>

(* C16: a handle is constructed only after the publish of the same         *)
(* submission succeeded; it refers to the item keyed by the submission's   *)
(* order_id in the configured table and is valid for 300 seconds, whatever *)
(* the expiry of the token that authorized the submission.                 *)
C16_HandleAfterPublish ==
    [][Completes =>
          /\ "generate_presigned_url" \in Range(last'.calls) =>
                /\ last'.calls = <<"send_message", "generate_presigned_url">>
                /\ Len(last'.sent) = 1
                /\ queue' = queue \o last'.sent
          /\ last'.signed # <<>> =>
                /\ last'.status = 202
                /\ Len(last'.signed) = 1
                /\ last'.signed[1].TableName = settings.ddb_table
                /\ last'.signed[1].Key = last'.out.order_id
                /\ last'.signed[1].Key = last'.sent[1].MessageDeduplicationId
                /\ last'.signed[1].ExpiresIn = 300
                /\ last'.out.poll_url = last'.signed
                /\ handles' = handles \o last'.signed]_vars

C16_Witness ==
    /\ Len(handles) = 2
    /\ last.status = 202
    /\ last.header.credentials.exp = 0
    /\ handles[1].Key # handles[2].Key

(* C20: the user_id of a published message and its grouping key are the    *)
(* subject of the validated token, whatever user_id the body carries.      *)
C20_PublishedForSubject ==
    [][(Completes /\ last'.sent # <<>>) =>
          /\ last'.sent[1].MessageBody.user_id = last'.header.credentials.sub
          /\ last'.sent[1].MessageGroupId = last'.header.credentials.sub
          /\ queue' = queue \o last'.sent]_vars

C20_Witness ==
    /\ last.status = 202
    /\ last.header.credentials.sub = "u1"
    /\ last.body.user_id = "u2"
    /\ queue[Len(queue)].MessageBody.user_id = "u1"

Validated == decoded'.n = decoded.n + 1

(* The instant t + TTL minutes of the token issued last, in ticks *)
NominalExpiry ==
    token.at + settings.jwt_expires_minutes * 60 * TicksPerSecond

(* C11 as stated: the expiry of a token issued at t is the instant t + TTL *)
(* minutes: every validation before that instant yields the subject and    *)
(* every validation after it is rejected.                                  *)
C11_ExpiryExact ==
    [][Validated =>
          /\ clock < NominalExpiry =>
                (decoded'.ok /\ decoded'.user_id = token.subject)
          /\ clock > NominalExpiry =>
                (~decoded'.ok /\ decoded'.status = 401)]_vars

(* C11 amended: the token carries t + TTL minutes cut to whole seconds;    *)
(* a validation up to and including that second yields the subject, a      *)
(* validation in a later second is rejected with 401.                      *)
C11_ExpiryWholeSeconds ==
    [][Validated =>
          LET exp == NominalExpiry \div TicksPerSecond
              second == clock \div TicksPerSecond
          IN  /\ token.jwt.exp = exp
              /\ token.jwt.sub = token.subject
              /\ second <= exp =>
                    (decoded'.ok /\ decoded'.user_id = token.subject)
              /\ second > exp =>
                    (~decoded'.ok /\ decoded'.status = 401)]_vars

C11_Witness ==
    /\ token.issued /\ token.at % TicksPerSecond # 0
    /\ token.subject = U50
    /\ decoded.n = 2 /\ ~decoded.ok /\ decoded.status = 401

(* C12: every response carries a non-empty X-Request-ID, whatever the      *)
(* route and the status; it is the inbound X-Request-ID when the request   *)
(* carried one with a value, and otherwise an identifier generated for     *)
(* this request, which no request in flight shares.                        *)
C12_RequestIdOnEveryResponse ==
    last.seq > 0 =>
        /\ last.route \in Routes
        /\ last.status \in {200, 202, 401, 403, 422, 429, 500, 502, 503}
        /\ last.x_request_id # ""
        /\ last.rid_in \notin {None, ""} => last.x_request_id = last.rid_in
        /\ last.rid_in \in {None, ""} =>
              /\ \E n \in 1..nreq :
                    last.x_request_id = "req-" \o ToString(n)
              /\ \A q \in Slots :
                    InFlight(q) => req[q].rid # last.x_request_id

C12_Witness ==
    /\ last.status = 429
    /\ last.rid_in = "abc-123" /\ last.x_request_id = "abc-123"
    /\ \E q \in Slots : InFlight(q) /\ req[q].rid_in = None

(* C13: the identifier read for a request is the one set for that request: *)
(* get_request_id in a request in flight, and the X-Request-ID on a        *)
(* response, give what set_request_id returned for the same request, also  *)
(* when the middleware ran for another request in between.                 *)
C13_RequestIdIsolated ==
    /\ \A q \in Slots :
          InFlight(q) => get_request_id(request_id_ctx, q) = req[q].rid
    /\ last.seq > 0 => last.x_request_id = last.rid_set

C13_Witness ==
    /\ last.overtaken
    /\ last.rid_set = "abc-123"
    /\ \E q \in Slots : InFlight(q) /\ req[q].rid \notin {"", "abc-123"}

(* C18: GET /ready gives 200 and status ready exactly when the queue URL   *)
(* and the table are both set; otherwise 503 with a detail that lists the  *)
(* missing settings and no others; GET /health gives 200 under any         *)
(* settings.                                                               *)
C18_ReadyAndHealth ==
    LET noQueue == settings.sqs_queue_url \in {None, ""}
        noTable == settings.ddb_table \in {None, ""}
        prefix == "Service not ready: missing configuration for "
    IN  /\ last.route = "/ready" =>
              /\ (~noQueue /\ ~noTable) =>
                    (last.status = 200 /\ last.out.status = "ready")
              /\ (noQueue \/ noTable) => last.status = 503
              /\ (noQueue /\ ~noTable) =>
                    last.detail = prefix \o "sqs_queue_url"
              /\ (~noQueue /\ noTable) =>
                    last.detail = prefix \o "ddb_table"
              /\ (noQueue /\ noTable) =>
                    last.detail = prefix \o "sqs_queue_url, ddb_table"
        /\ last.route = "/health" =>
              (last.status = 200 /\ last.out.status = "healthy")

C18_Witness ==
    /\ last.route = "/ready" /\ last.status = 503
    /\ settings.sqs_queue_url = QueueUrl /\ settings.ddb_table = None
    /\ \E q \in Slots : req[q].pc = "received" /\ req[q].route = "/health"

C21_OneOrderId ==
    [][(Completes /\ last'.status = 202) =>
          /\ last'.outcome = <<"ok", "ok">>
          /\ last'.calls = <<"send_message", "generate_presigned_url">>
          /\ Len(last'.sent) = 1 /\ Len(last'.signed) = 1
          /\ queue' = Append(queue, last'.sent[1])
          /\ handles' = Append(handles, last'.signed[1])
          /\ last'.out.order_id # ""
          /\ last'.out.order_id = last'.sent[1].MessageBody.order_id
          /\ last'.out.order_id = last'.sent[1].MessageDeduplicationId
          /\ last'.out.order_id = last'.signed[1].Key
          /\ last'.out.poll_url = last'.signed]_vars

C21_Witness ==
    /\ last.status = 202 /\ last.seq = 2
    /\ Len(queue) = 1 /\ Len(handles) = 1
    /\ queue[1].MessageDeduplicationId = last.out.order_id
    /\ handles[1].Key = last.out.order_id

(* C22: the application serves only if startup found the queue URL and    *)
(* the table set; the settings do not change afterwards, so no response is *)
(* a 503: GET /ready gives 200 and the order route never answers           *)
(* "not configured".                                                       *)
C22_ServingMeansConfigured ==
    LET unset == \/ settings.sqs_queue_url \in {None, ""}
                 \/ settings.ddb_table \in {None, ""}
    IN  /\ app = "serving" => ~unset
        /\ unset => (app \in {"starting", "failed"} /\ nreq = 0
                     /\ last.seq = 0)
        /\ last.seq > 0 =>
              /\ last.status # 503
              /\ last.route = "/ready" => last.status = 200
              /\ last.detail \notin {"Queue service not configured",
                                     "Database service not configured"}

C22_Witness ==
    /\ app = "serving"
    /\ last.route = "/ready" /\ last.status = 200
    /\ queue # <<>>

C23_IndependentQuotas ==
    /\ last.status = 202 /\ last.user_id = "u1"
    /\ Len(queue) = RateLimitN + 1
    /\ \A i \in 1..Len(queue) : queue[i].MessageGroupId = "u1"
    /\ \E k \in Addrs \ {last.client} :
          win[k].admitted = RateLimitN /\ now < win[k].start + WindowLen

(* The steps of handler bodies in the trace, and where a request entered *)
InBody(i) == trace[i].step # "ready"

EnteredAt(n) ==
    CHOOSE i \in 1..Len(trace) :
        trace[i].n = n /\ trace[i].step \in {"enter", "limit"}

Published == SelectSeq(trace, LAMBDA e : e.step = "send_message")

(* C24: the steps of a request's handler body are not interleaved with a   *)
(* step of another request's body: from its entry over the order-id        *)
(* generation and the publish to the handle construction the event loop    *)
(* runs this request only; so the messages are in the queue in the order   *)
(* in which their requests entered the body.                               *)
C24_PipelineNotInterleaved ==
    /\ \A i, j \in 1..Len(trace) :
          (i < j /\ InBody(i) /\ InBody(j) /\ trace[i].n = trace[j].n) =>
             \A k \in i..j : trace[k].n = trace[i].n
    /\ \A r \in Slots :
          frames[r].pc \in {"entered", "generated", "published", "signed"}
             => (loop = r /\ trace[Len(trace)].n = frames[r].n)
    /\ Len(Published) = Len(queue)
    /\ \A i \in 1..Len(queue) :
          queue[i].MessageDeduplicationId = Published[i].order_id
    /\ \A i, j \in 1..Len(Published) :
          i < j => EnteredAt(Published[i].n) < EnteredAt(Published[j].n)

(* Two requests waited for the loop together; the later arrival entered    *)
(* first and both published.                                               *)
C24_Witness ==
    /\ Len(trace) >= 4 /\ Len(queue) = 2
    /\ trace[1].step = "ready" /\ trace[2].step = "ready"
    /\ trace[3].step = "enter" /\ trace[3].n = trace[2].n
    /\ Published[1].n = trace[2].n /\ Published[2].n = trace[1].n

(* C25: an inbound X-Request-ID with the empty string as its value is not *)
(* used: the response carries an identifier generated for the request, as  *)
(* it does when the header is absent; every non-empty inbound value is     *)
(* returned unchanged.                                                     *)
C25_EmptyRequestIdReplaced ==
    LET generated == {"req-" \o ToString(n) : n \in 1..nreq}
    IN  /\ \A q \in Slots :
              InFlight(q) =>
                 /\ req[q].rid_in \in {None, ""} => req[q].rid \in generated
                 /\ req[q].rid_in \notin {None, ""} => req[q].rid = req[q].rid_in
        /\ last.seq > 0 =>
              /\ last.rid_in \in {None, ""} =>
                    (last.x_request_id \in generated
                     /\ last.x_request_id # last.rid_in)
              /\ last.rid_in \notin {None, ""} =>
                    last.x_request_id = last.rid_in

C25_Witness ==
    /\ last.seq > 0 /\ last.rid_in = "" /\ last.x_request_id # ""
    /\ \E q \in Slots : InFlight(q) /\ req[q].rid_in = "0" /\ req[q].rid = "0"

====
